---- MODULE Spec2Model ----
(***************************************************************************)
(* Model of the Ipopt plugin of roboptim (roboptim-core-ipopt-plugin.cc):  *)
(* the TNLP adapter MyTNLP, whose callbacks the Ipopt engine invokes, and  *)
(* IpoptSolver::solve, which drives the engine and owns the result slot.   *)
(*                                                                         *)
(* Vectors, matrices and the engine's flat buffers are functions over      *)
(* 0-based index ranges.  Numbers are integers.  A callback's output is    *)
(* the set of buffer cells it writes (a function from the indices written  *)
(* to the values written), kept apart from the length the engine gave the  *)
(* buffer, so that a write past the end of a buffer is visible.            *)
(***************************************************************************)
EXTENDS Integers, Sequences, FiniteSets, TLC

\* ------------------------------------------------------------------ bounds
MaxN == 2
MaxM == 2

VARIABLES problem, pc, result, resultWrites, optimizeCalls, initStatus,
          info, called, jacStruct, hStruct, valueQueried, startMissing, last

vars == <<problem, pc, result, resultWrites, optimizeCalls, initStatus,
          info, called, jacStruct, hStruct, valueQueried, startMissing, last>>

Range(k) == 0 .. (k - 1)

\* The points, multiplier vectors, objective factors and objective values
\* the engine may hand to a callback: a few of each for every size, with
\* entries that differ from one index to the next.
Points(n) == { [i \in Range(n) |-> a + i * b] : a \in {0, 1}, b \in {0, 1} }
Multipliers(m) == { [i \in Range(m) |-> a + i * b] : a \in {1, 2}, b \in {0, 1} }
Factors == {1, 2}
ObjValues == {3, 4}

\* ------------------------------------------------- the Problem collaborator
\* problem ().function ().n, constraints ().size (), startingPoint (),
\* argBounds (), bounds (), argScales (), scales (): a Problem with n
\* variables and m constraints, whose containers have the lengths n and m.
Problems ==
  { [n |-> n, m |-> m, hasStart |-> s,
     startingPoint |-> [i \in Range(n) |-> 5 + i],
     argBounds |-> [i \in Range(n) |-> <<-(i + 1), i + 1>>],
     bounds |-> [c \in Range(m) |-> <<10 + c, 20 + c>>],
     argScales |-> [i \in Range(n) |-> 2 + i],
     scales |-> [c \in Range(m) |-> 7 + c]] :
    n \in 1 .. MaxN, m \in 0 .. MaxM, s \in BOOLEAN }

\* The oracles of the objective and of the constraints (external
\* collaborators): value, gradient and Hessian of output component 0.
function_value(x) == x[0] + 1
function_gradient(x) == [j \in DOMAIN x |-> 2 * (j + 1) + x[j]]
function_hessian(x) ==
  [i \in DOMAIN x |-> [j \in DOMAIN x |-> 2 * (i + j + 1) + x[i] + x[j]]]
constraint_value(c, x) == (c + 1) * 3 + x[0]
constraint_gradient(c, x) == [j \in DOMAIN x |-> (c + 1) * (2 * j + 1) + x[j]]
constraint_hessian(c, x) ==
  [i \in DOMAIN x |-> [j \in DOMAIN x |-> (c + 1) * (i + j + 1) + x[i] * x[j]]]

\* -------------------------------------------------- array/container bridge
\* array_to_vector (dst, src): copies dst.size () elements of the flat
\* buffer src into dst, index by index.
array_to_vector(dst, src) == [i \in DOMAIN dst |-> src[i]]

\* vector_to_array (dst, src): writes src.size () cells of the flat buffer.
vector_to_array(src) == [i \in DOMAIN src |-> src[i]]

\* A vector of the given size with cleared entries.
vector_t(size) == [i \in Range(size) |-> 0]

\* jacobian_from_gradients: row i of jac is the gradient of constraint i.
jacobian_from_gradients(m, x) ==
  [i \in Range(m) |-> constraint_gradient(i, x)]

\* ------------------------------------------------------ the Result variants
NoSolution == [kind |-> "NoSolution"]
SolverError(msg) == [kind |-> "SolverError", msg |-> msg]

\* Result (n, 1): x of size n, value of size 1, lambda left empty.
Result_ctor(n) ==
  [kind |-> "Result", x |-> vector_t(n), value |-> 0, lambda |-> << >>]

\* ResultWithWarnings (n, 1): a Result plus an empty list of warnings.
ResultWithWarnings_ctor(n) ==
  [kind |-> "ResultWithWarnings", x |-> vector_t(n), value |-> 0,
   lambda |-> << >>, warnings |-> << >>]

\* ------------------------------------------------ structural callbacks
\* get_nlp_info: the sizes reported to the engine (dense matrices).
get_nlp_info_bad_nnz(p) ==
  [n |-> p.n, m |-> p.m, nnz_jac_g |-> p.n * p.n, nnz_h_lag |-> p.n * p.m,
   ret |-> TRUE]

get_nlp_info(p) ==
  [n |-> p.n, m |-> p.m, nnz_jac_g |-> p.n * p.m, nnz_h_lag |-> p.n * p.n,
   ret |-> TRUE]

\* get_bounds_info: one cell of x_l and x_u per element of argBounds (),
\* one cell of g_l and g_u per element of bounds (); the pointers advance
\* by one per element.
get_bounds_info(p) ==
  [x_l |-> [k \in DOMAIN p.argBounds |-> p.argBounds[k][1]],
   x_u |-> [k \in DOMAIN p.argBounds |-> p.argBounds[k][2]],
   g_l |-> [k \in DOMAIN p.bounds |-> p.bounds[k][1]],
   g_u |-> [k \in DOMAIN p.bounds |-> p.bounds[k][2]]]

\* get_scaling_parameters: memcpy of n doubles of argScales () into
\* x_scaling, then g_scaling[i] = scales ()[i] for i < m.
get_scaling_parameters(p, n, m) ==
  [x_scaling |-> [k \in Range(n) |-> p.argScales[k]],
   g_scaling |-> [i \in Range(m) |-> p.scales[i]]]

\* get_starting_point: the cells written, the value returned and the
\* writes to solver_.result_ (at most one).
get_starting_point_falls_through(p, n, init_x, init_z) ==
  [z_L |-> IF init_z THEN [i \in Range(n) |-> 1] ELSE << >>,
   z_U |-> IF init_z THEN [i \in Range(n) |-> 1] ELSE << >>,
   x |-> IF p.hasStart THEN vector_to_array(p.startingPoint) ELSE << >>,
   slot |-> IF ~p.hasStart /\ init_x
              THEN <<SolverError("Ipopt method needs a starting point.")>>
              ELSE << >>,
   ret |-> TRUE]

get_starting_point(p, n, init_x, init_z) ==
  LET z == IF init_z THEN [i \in Range(n) |-> 1] ELSE << >>
  IN  IF ~p.hasStart /\ init_x
        THEN [z_L |-> z, z_U |-> z, x |-> << >>,
              slot |-> <<SolverError("Ipopt method needs a starting point.")>>,
              ret |-> FALSE]
      ELSE IF ~p.hasStart
        THEN [z_L |-> z, z_U |-> z, x |-> << >>, slot |-> << >>, ret |-> TRUE]
      ELSE [z_L |-> z, z_U |-> z, x |-> vector_to_array(p.startingPoint),
            slot |-> << >>, ret |-> TRUE]

\* ------------------------------------------------------- dense enumeration
\* The loops "for i < rows, for j < cols" with the running index idx.  The
\* accumulator maps each idx written to what was written there.
RECURSIVE structure_loop(_, _, _, _, _, _)
structure_loop(rows, cols, i, j, idx, acc) ==
  IF i >= rows THEN acc
  ELSE IF j >= cols THEN structure_loop(rows, cols, i + 1, 0, idx, acc)
  ELSE structure_loop(rows, cols, i, j + 1, idx + 1, (idx :> <<i, j>>) @@ acc)

RECURSIVE values_loop(_, _, _, _, _, _, _)
values_loop(mat, rows, cols, i, j, idx, acc) ==
  IF i >= rows THEN acc
  ELSE IF j >= cols THEN values_loop(mat, rows, cols, i + 1, 0, idx, acc)
  ELSE values_loop(mat, rows, cols, i, j + 1, idx + 1,
                   (idx :> mat[i][j]) @@ acc)

RECURSIVE values_loop_column_major(_, _, _, _, _, _, _)
values_loop_column_major(mat, rows, cols, i, j, idx, acc) ==
  IF j >= cols THEN acc
  ELSE IF i >= rows
    THEN values_loop_column_major(mat, rows, cols, 0, j + 1, idx, acc)
  ELSE values_loop_column_major(mat, rows, cols, i + 1, j, idx + 1,
                                (idx :> mat[i][j]) @@ acc)

\* eval_jac_g with values == NULL: iRow[idx] = i, jCol[idx] = j.
eval_jac_g_structure(n, m) ==
  LET w == structure_loop(m, n, 0, 0, 0, << >>)
  IN  [iRow |-> [k \in DOMAIN w |-> w[k][1]],
       jCol |-> [k \in DOMAIN w |-> w[k][2]]]

\* eval_jac_g with values: values[idx++] = jac (i, j).
eval_jac_g_values_transposed(n, m, x) ==
  [values |-> values_loop_column_major(jacobian_from_gradients(m, x),
                                       m, n, 0, 0, 0, << >>)]

eval_jac_g_values(n, m, x) ==
  [values |-> values_loop(jacobian_from_gradients(m, x), m, n, 0, 0, 0, << >>)]

\* eval_h with values == NULL.
eval_h_structure(n) ==
  LET w == structure_loop(n, n, 0, 0, 0, << >>)
  IN  [iRow |-> [k \in DOMAIN w |-> w[k][1]],
       jCol |-> [k \in DOMAIN w |-> w[k][2]]]

\* ------------------------------------------------------ Hessian aggregator
Scaled(a, mat) == [i \in DOMAIN mat |-> [j \in DOMAIN mat[i] |-> a * mat[i][j]]]
Added(h, mat) == [i \in DOMAIN h |-> [j \in DOMAIN h[i] |-> h[i][j] + mat[i][j]]]

\* The loop of compute_hessian: "it" walks the constraints, i is the index
\* of the multiplier, advanced with it.  acc holds h and the order in which
\* the terms were accumulated.
RECURSIVE compute_hessian_loop(_, _, _, _, _, _)
compute_hessian_loop(p, x, lambda, it, i, acc) ==
  IF it >= p.m THEN acc
  ELSE compute_hessian_loop(p, x, lambda, it + 1, i + 1,
         [h |-> Added(acc.h, Scaled(lambda[i], constraint_hessian(it, x))),
          order |-> Append(acc.order, [term |-> "constraint", index |-> it])])

\* The same loop with the multiplier index left at 0.
RECURSIVE compute_hessian_loop_stuck(_, _, _, _, _, _)
compute_hessian_loop_stuck(p, x, lambda, it, i, acc) ==
  IF it >= p.m THEN acc
  ELSE compute_hessian_loop_stuck(p, x, lambda, it + 1, i,
         [h |-> Added(acc.h, Scaled(lambda[i], constraint_hessian(it, x))),
          order |-> Append(acc.order, [term |-> "constraint", index |-> it])])

compute_hessian_stuck_multiplier(p, x, obj_factor, lambda) ==
  compute_hessian_loop_stuck(p, x, lambda, 0, 0,
    [h |-> Scaled(obj_factor, function_hessian(x)),
     order |-> <<[term |-> "objective", index |-> 0]>>])

\* compute_hessian: h = obj_factor * fct_h, then h += lambda[i++] * hessian
\* of each constraint in turn.
compute_hessian(p, x, obj_factor, lambda) ==
  compute_hessian_loop(p, x, lambda, 0, 0,
    [h |-> Scaled(obj_factor, function_hessian(x)),
     order |-> <<[term |-> "objective", index |-> 0]>>])

\* eval_h with values: values[idx++] = h (i, j), h from compute_hessian.
eval_h_values(p, n, m, x, obj_factor, lambda) ==
  LET c == compute_hessian(p, x, obj_factor, lambda)
  IN  [values |-> values_loop(c.h, n, n, 0, 0, 0, << >>), h |-> c.h,
       order |-> c.order]

\* ------------------------------------------------------- value callbacks
eval_f(x) == function_value(x)
eval_grad_f(x) == [grad_f |-> vector_to_array(function_gradient(x))]
eval_g(m, x) ==
  [g |-> vector_to_array([i \in Range(m) |-> constraint_value(i, x)])]
intermediate_callback == TRUE

\* ------------------------------------------------------ outcome translator
SolverReturn ==
  {"SUCCESS", "MAXITER_EXCEEDED", "STOP_AT_TINY_STEP",
   "STOP_AT_ACCEPTABLE_POINT", "LOCAL_INFEASIBILITY", "USER_REQUESTED_STOP",
   "FEASIBLE_POINT_FOUND", "DIVERGING_ITERATES", "RESTORATION_FAILURE",
   "ERROR_IN_STEP_COMPUTATION", "INVALID_NUMBER_DETECTED", "INTERNAL_ERROR",
   "TOO_FEW_DEGREES_OF_FREEDOM", "INVALID_OPTION", "OUT_OF_MEMORY"}

\* The failure codes that have a case of the switch of finalize_solution.
ErrorCases_without_out_of_memory ==
  {"MAXITER_EXCEEDED", "STOP_AT_TINY_STEP", "LOCAL_INFEASIBILITY",
   "DIVERGING_ITERATES", "RESTORATION_FAILURE", "ERROR_IN_STEP_COMPUTATION",
   "INVALID_NUMBER_DETECTED", "INTERNAL_ERROR", "TOO_FEW_DEGREES_OF_FREEDOM",
   "INVALID_OPTION"}

ErrorCases ==
  {"MAXITER_EXCEEDED", "STOP_AT_TINY_STEP", "LOCAL_INFEASIBILITY",
   "DIVERGING_ITERATES", "RESTORATION_FAILURE", "ERROR_IN_STEP_COMPUTATION",
   "INVALID_NUMBER_DETECTED", "INTERNAL_ERROR", "TOO_FEW_DEGREES_OF_FREEDOM",
   "INVALID_OPTION", "OUT_OF_MEMORY"}

\* One message for every failure.
termination_message_generic(status) == "Unknown internal error."

\* The message of the SolverError each failure case stores.
termination_message(status) ==
  CASE status = "MAXITER_EXCEEDED" -> "Max iteration exceeded."
    [] status = "STOP_AT_TINY_STEP" ->
         "Algorithm proceeds with very little progress."
    [] status = "LOCAL_INFEASIBILITY" ->
         "Algorithm converged to a point of local infeasibility."
    [] status = "DIVERGING_ITERATES" -> "Iterate diverges."
    [] status = "RESTORATION_FAILURE" -> "Restoration phase failed."
    [] status = "ERROR_IN_STEP_COMPUTATION" ->
  "Unrecoverable error while IPOPT tried to compute the search direction."
    [] status = "INVALID_NUMBER_DETECTED" ->
         "IPOPT received an invalid number."
    [] status = "INTERNAL_ERROR" -> "Unknown internal error."
    [] status = "TOO_FEW_DEGREES_OF_FREEDOM" -> "Two few degrees of freedom."
    [] status = "INVALID_OPTION" -> "Invalid option."
    [] status = "OUT_OF_MEMORY" -> "Out of memory."

\* The switch of finalize_solution: the writes to solver_.result_ (none or
\* one) and whether assert (0) was reached.  A status with no case leaves
\* the switch without a write.
finalize_solution(status, n, x, m, lambda, obj_value) ==
  CASE status \in {"FEASIBLE_POINT_FOUND", "SUCCESS"} ->
         [slot |-> <<[Result_ctor(n) EXCEPT
                        !.x = array_to_vector(@, x),
                        !.lambda = array_to_vector(vector_t(m), lambda),
                        !.value = obj_value]>>,
          unreachable |-> FALSE]
    [] status = "STOP_AT_ACCEPTABLE_POINT" ->
         [slot |-> <<[ResultWithWarnings_ctor(n) EXCEPT
                        !.x = array_to_vector(@, x),
                        !.lambda = array_to_vector(@, lambda),
                        !.value = obj_value,
                        !.warnings = Append(@, "Acceptable point.")]>>,
          unreachable |-> FALSE]
    [] status = "USER_REQUESTED_STOP" ->
         [slot |-> << >>, unreachable |-> TRUE]
    [] status \in ErrorCases ->
         [slot |-> <<SolverError(termination_message(status))>>,
          unreachable |-> FALSE]
    [] OTHER -> [slot |-> << >>, unreachable |-> FALSE]

\* ------------------------------------------------------------ solver facade
ApplicationReturnStatus ==
  {"Solve_Succeeded", "Solved_To_Acceptable_Level",
   "Infeasible_Problem_Detected", "Search_Direction_Becomes_Too_Small",
   "Diverging_Iterates", "User_Requested_Stop", "Feasible_Point_Found",
   "Maximum_Iterations_Exceeded", "Restoration_Failed",
   "Error_In_Step_Computation", "Not_Enough_Degrees_Of_Freedom",
   "Invalid_Problem_Definition", "Invalid_Option", "Invalid_Number_Detected",
   "Unrecoverable_Exception", "NonIpopt_Exception_Thrown",
   "Insufficient_Memory", "Internal_Error"}

\* The cases of the switch of solve that call app_->OptimizeTNLP (nlp_).
OptimizeCases_with_maxiter ==
  {"Solve_Succeeded", "Solved_To_Acceptable_Level", "Feasible_Point_Found",
   "Maximum_Iterations_Exceeded"}

OptimizeCases ==
  {"Solve_Succeeded", "Solved_To_Acceptable_Level", "Feasible_Point_Found"}

\* The cases of the switch of solve that are assert (0).
AssertCases == {"User_Requested_Stop", "NonIpopt_Exception_Thrown"}

\* The cases of the switch of solve that store a SolverError.
InitializeErrorCases ==
  {"Infeasible_Problem_Detected", "Search_Direction_Becomes_Too_Small",
   "Diverging_Iterates", "Maximum_Iterations_Exceeded", "Restoration_Failed",
   "Error_In_Step_Computation", "Not_Enough_Degrees_Of_Freedom",
   "Invalid_Problem_Definition", "Invalid_Option", "Invalid_Number_Detected",
   "Unrecoverable_Exception", "Insufficient_Memory", "Internal_Error"}

\* The message of the SolverError each failure case of solve stores.
initialize_message(status) ==
  CASE status = "Infeasible_Problem_Detected" ->
         "Ipopt: infeasible problem detected."
    [] status = "Search_Direction_Becomes_Too_Small" ->
         "Ipopt: search direction too small."
    [] status = "Diverging_Iterates" -> "Ipopt: diverging iterates."
    [] status = "Maximum_Iterations_Exceeded" ->
         "Ipopt: maximum iterations exceeded."
    [] status = "Restoration_Failed" -> "Ipopt: restoration failed."
    [] status = "Error_In_Step_Computation" ->
         "Ipopt: error in step computation."
    [] status = "Not_Enough_Degrees_Of_Freedom" ->
         "Ipopt: not enough degrees of freedom."
    [] status = "Invalid_Problem_Definition" ->
         "Ipopt: invalid problem definition."
    [] status = "Invalid_Option" -> "Ipopt: invalid option."
    [] status = "Invalid_Number_Detected" ->
         "Ipopt: invalid number detected."
    [] status = "Unrecoverable_Exception" ->
         "Ipopt: unrecoverable exception."
    [] status = "Insufficient_Memory" -> "Ipopt: insufficient memory."
    [] status = "Internal_Error" -> "Ipopt: internal error."

\* The switch of solve on the status of app_->Initialize (""): whether
\* OptimizeTNLP is called, the writes to result_ and whether assert (0) was
\* reached.
solve_switch(status) ==
  CASE status \in OptimizeCases ->
         [optimize |-> TRUE, slot |-> << >>, unreachable |-> FALSE]
    [] status \in AssertCases ->
         [optimize |-> FALSE, slot |-> << >>, unreachable |-> TRUE]
    [] status \in InitializeErrorCases ->
         [optimize |-> FALSE,
          slot |-> <<SolverError(initialize_message(status))>>,
          unreachable |-> FALSE]
    [] OTHER -> [optimize |-> FALSE, slot |-> << >>, unreachable |-> FALSE]

\* ------------------------------------------------------------------- state
\* result_ after the writes of one handler, and the number of writes so far.
Stored(slot) == IF slot = << >> THEN result ELSE slot[Len(slot)]

\* The five structural callbacks the engine makes after get_nlp_info.
Structural ==
  {"get_bounds_info", "get_scaling_parameters", "get_starting_point",
   "eval_jac_g_structure", "eval_h_structure"}

NoCall == [name |-> "none"]

Init ==
  /\ problem \in Problems
  /\ pc = "start"
  /\ result = NoSolution
  /\ resultWrites = 0
  /\ optimizeCalls = 0
  /\ initStatus = "none"
  /\ info = [n |-> 0, m |-> 0, nnz_jac_g |-> 0, nnz_h_lag |-> 0, ret |-> FALSE]
  /\ called = {}
  /\ jacStruct = [iRow |-> << >>, jCol |-> << >>]
  /\ hStruct = [iRow |-> << >>, jCol |-> << >>]
  /\ valueQueried = FALSE
  /\ startMissing = FALSE
  /\ last = NoCall

\* assert (0): the build with assertions aborts, the build without them
\* goes on to the break.
AfterAssert == {"aborted", "returned"}

\* IpoptSolver::solve up to the call of OptimizeTNLP, or to its return when
\* the status of Initialize has a case that does not call it.
solve ==
  /\ pc = "start"
  /\ \E status \in ApplicationReturnStatus :
       LET s == solve_switch(status)
       IN  /\ initStatus' = status
           /\ result' = Stored(s.slot)
           /\ resultWrites' = resultWrites + Len(s.slot)
           /\ optimizeCalls' = optimizeCalls + (IF s.optimize THEN 1 ELSE 0)
           /\ pc' \in (IF s.optimize THEN {"nlp_info"}
                       ELSE IF s.unreachable THEN AfterAssert
                       ELSE {"returned"})
  /\ UNCHANGED <<problem, info, called, jacStruct, hStruct, valueQueried, startMissing, last>>

\* The engine, inside OptimizeTNLP, asks for the sizes first.
GetNlpInfo ==
  /\ pc = "nlp_info"
  /\ info' = get_nlp_info(problem)
  /\ pc' = "structure"
  /\ last' = [name |-> "get_nlp_info", ret |-> info'.ret]
  /\ UNCHANGED <<problem, result, resultWrites, optimizeCalls, initStatus,
                 called, jacStruct, hStruct, valueQueried, startMissing>>

\* After a structural callback: the iterations start once all were made.
NextStructural(name) ==
  /\ called' = called \cup {name}
  /\ pc' = IF called' = Structural THEN "iterate" ELSE "structure"

GetBoundsInfo ==
  /\ pc = "structure"
  /\ "get_bounds_info" \notin called
  /\ NextStructural("get_bounds_info")
  /\ last' = [name |-> "get_bounds_info",
              out |-> get_bounds_info(problem),
              len |-> [x_l |-> info.n, x_u |-> info.n,
                       g_l |-> info.m, g_u |-> info.m],
              ret |-> TRUE]
  /\ UNCHANGED <<problem, result, resultWrites, optimizeCalls, initStatus,
                 info, jacStruct, hStruct, valueQueried, startMissing>>

GetScalingParameters ==
  /\ pc = "structure"
  /\ "get_scaling_parameters" \notin called
  /\ NextStructural("get_scaling_parameters")
  /\ last' = [name |-> "get_scaling_parameters",
              out |-> get_scaling_parameters(problem, info.n, info.m),
              len |-> [x_scaling |-> info.n, g_scaling |-> info.m],
              ret |-> TRUE]
  /\ UNCHANGED <<problem, result, resultWrites, optimizeCalls, initStatus,
                 info, jacStruct, hStruct, valueQueried, startMissing>>

\* get_starting_point; init_lambda is false (asserted).  When it returns
\* false the engine stops and OptimizeTNLP returns to solve, which returns.
GetStartingPoint ==
  /\ pc = "structure"
  /\ "get_starting_point" \notin called
  /\ \E init_x \in BOOLEAN, init_z \in BOOLEAN :
       LET r == get_starting_point(problem, info.n, init_x, init_z)
       IN  /\ last' = [name |-> "get_starting_point",
                       args |-> [init_x |-> init_x, init_z |-> init_z],
                       out |-> [x |-> r.x, z_L |-> r.z_L, z_U |-> r.z_U],
                       len |-> [x |-> info.n, z_L |-> info.n, z_U |-> info.n],
                       ret |-> r.ret,
                       slotWrites |-> Len(r.slot)]
           /\ startMissing' = (~problem.hasStart /\ init_x)
           /\ result' = Stored(r.slot)
           /\ resultWrites' = resultWrites + Len(r.slot)
           /\ called' = called \cup {"get_starting_point"}
           /\ pc' = IF ~r.ret THEN "returned"
                    ELSE IF called' = Structural THEN "iterate"
                    ELSE "structure"
  /\ UNCHANGED <<problem, optimizeCalls, initStatus, info, jacStruct, hStruct,
                 valueQueried>>

EvalJacGStructure ==
  /\ pc = "structure"
  /\ "eval_jac_g_structure" \notin called
  /\ NextStructural("eval_jac_g_structure")
  /\ jacStruct' = eval_jac_g_structure(info.n, info.m)
  /\ last' = [name |-> "eval_jac_g_structure",
              out |-> jacStruct',
              len |-> [iRow |-> info.nnz_jac_g, jCol |-> info.nnz_jac_g],
              ret |-> TRUE]
  /\ UNCHANGED <<problem, result, resultWrites, optimizeCalls, initStatus,
                 info, hStruct, valueQueried, startMissing>>

EvalHStructure ==
  /\ pc = "structure"
  /\ "eval_h_structure" \notin called
  /\ NextStructural("eval_h_structure")
  /\ hStruct' = eval_h_structure(info.n)
  /\ last' = [name |-> "eval_h_structure",
              out |-> hStruct',
              len |-> [iRow |-> info.nnz_h_lag, jCol |-> info.nnz_h_lag],
              ret |-> TRUE]
  /\ UNCHANGED <<problem, result, resultWrites, optimizeCalls, initStatus,
                 info, jacStruct, valueQueried, startMissing>>

\* ------------------------------------------------- the value callbacks
Iterating ==
  /\ pc = "iterate"
  /\ valueQueried' = TRUE
  /\ UNCHANGED <<problem, pc, result, resultWrites, optimizeCalls, initStatus,
                 info, called, jacStruct, hStruct, startMissing>>

EvalF ==
  /\ Iterating
  /\ \E x \in Points(info.n) :
       last' = [name |-> "eval_f", args |-> [x |-> x],
                obj_value |-> eval_f(x), ret |-> TRUE]

EvalGradF ==
  /\ Iterating
  /\ \E x \in Points(info.n) :
       last' = [name |-> "eval_grad_f", args |-> [x |-> x],
                out |-> eval_grad_f(x), len |-> [grad_f |-> info.n],
                ret |-> TRUE]

EvalG ==
  /\ Iterating
  /\ \E x \in Points(info.n) :
       last' = [name |-> "eval_g", args |-> [x |-> x],
                out |-> eval_g(info.m, x), len |-> [g |-> info.m],
                ret |-> TRUE]

EvalJacGValues ==
  /\ Iterating
  /\ \E x \in Points(info.n) :
       last' = [name |-> "eval_jac_g", args |-> [x |-> x],
                out |-> eval_jac_g_values(info.n, info.m, x),
                len |-> [values |-> info.nnz_jac_g],
                ret |-> TRUE]

EvalHValues ==
  /\ Iterating
  /\ \E x \in Points(info.n), obj_factor \in Factors,
        lambda \in Multipliers(info.m) :
       LET r == eval_h_values(problem, info.n, info.m, x, obj_factor, lambda)
       IN  last' = [name |-> "eval_h",
                    args |-> [x |-> x, obj_factor |-> obj_factor,
                              lambda |-> lambda],
                    out |-> [values |-> r.values],
                    len |-> [values |-> info.nnz_h_lag],
                    h |-> r.h,
                    order |-> r.order,
                    ret |-> TRUE]

IntermediateCallback ==
  /\ pc = "iterate"
  /\ last' = [name |-> "intermediate_callback", ret |-> intermediate_callback]
  /\ UNCHANGED <<problem, pc, result, resultWrites, optimizeCalls, initStatus,
                 info, called, jacStruct, hStruct, valueQueried, startMissing>>

\* The terminal notification: the engine ends the iterations with a status,
\* finalize_solution runs, OptimizeTNLP returns to solve, which returns.
FinalizeSolution ==
  /\ pc = "iterate"
  /\ \E status \in SolverReturn, x \in Points(info.n),
        lambda \in Multipliers(info.m), obj_value \in ObjValues :
       LET r == finalize_solution(status, info.n, x, info.m, lambda, obj_value)
       IN  /\ last' = [name |-> "finalize_solution",
                       args |-> [status |-> status, x |-> x,
                                 lambda |-> lambda, obj_value |-> obj_value],
                       slotWrites |-> Len(r.slot)]
           /\ result' = Stored(r.slot)
           /\ resultWrites' = resultWrites + Len(r.slot)
           /\ pc' \in (IF r.unreachable THEN AfterAssert ELSE {"returned"})
  /\ UNCHANGED <<problem, optimizeCalls, initStatus, info, called, jacStruct,
                 hStruct, valueQueried, startMissing>>

Next ==
  \/ solve
  \/ GetNlpInfo
  \/ GetBoundsInfo
  \/ GetScalingParameters
  \/ GetStartingPoint
  \/ EvalJacGStructure
  \/ EvalHStructure
  \/ EvalF
  \/ EvalGradF
  \/ EvalG
  \/ EvalJacGValues
  \/ EvalHValues
  \/ IntermediateCallback
  \/ FinalizeSolution

Spec == Init /\ [][Next]_vars

\* ================================================================== claims
Finalized == last.name = "finalize_solution"

\* The outcome table: the Result variant of each termination code.
OutcomeVariant(status) ==
  CASE status \in {"SUCCESS", "FEASIBLE_POINT_FOUND"} -> "Result"
    [] status = "STOP_AT_ACCEPTABLE_POINT" -> "ResultWithWarnings"
    [] OTHER -> "SolverError"

\* The failure family of termination codes.
FailureCodes ==
  {"MAXITER_EXCEEDED", "STOP_AT_TINY_STEP", "LOCAL_INFEASIBILITY",
   "DIVERGING_ITERATES", "RESTORATION_FAILURE", "ERROR_IN_STEP_COMPUTATION",
   "INVALID_NUMBER_DETECTED", "INTERNAL_ERROR", "TOO_FEW_DEGREES_OF_FREEDOM",
   "INVALID_OPTION", "OUT_OF_MEMORY"}

\* C1 as stated: whatever termination code finalize_solution is invoked
\* with, the call writes the result slot once, with the variant of the
\* outcome table; no code leaves the slot unwritten.
C1_EveryCodeStores ==
  Finalized =>
    /\ last.slotWrites = 1
    /\ result.kind = OutcomeVariant(last.args.status)

\* C1 amended: for every termination code other than USER_REQUESTED_STOP
\* the call writes the result slot once, with the variant of the outcome
\* table; for USER_REQUESTED_STOP, which the code asserts unreachable, the
\* call writes nothing and the slot keeps what it held.
C1_EveryCodeButUserStopStores ==
  Finalized =>
    IF last.args.status = "USER_REQUESTED_STOP"
      THEN last.slotWrites = 0 /\ result = NoSolution
      ELSE /\ last.slotWrites = 1
           /\ result.kind = OutcomeVariant(last.args.status)

C1_Witness ==
  /\ Finalized
  /\ last.args.status = "FEASIBLE_POINT_FOUND"
  /\ result.kind = "Result"
  /\ pc = "returned"

\* C2: with STOP_AT_ACCEPTABLE_POINT the stored Result is a
\* ResultWithWarnings with the one warning "Acceptable point." and the
\* payload of a Success: x the n primal values, lambda the m constraint
\* multipliers, value the objective value.
C2_AcceptablePointPayload ==
  (Finalized /\ last.args.status = "STOP_AT_ACCEPTABLE_POINT") =>
    /\ result.kind = "ResultWithWarnings"
    /\ result.warnings = <<"Acceptable point.">>
    /\ result.x = [i \in Range(problem.n) |-> last.args.x[i]]
    /\ result.lambda = [i \in Range(problem.m) |-> last.args.lambda[i]]
    /\ result.value = last.args.obj_value

\* The fixed message of each failure code.
FixedMessage(status) ==
  CASE status = "MAXITER_EXCEEDED" -> "Max iteration exceeded."
    [] status = "STOP_AT_TINY_STEP" ->
         "Algorithm proceeds with very little progress."
    [] status = "LOCAL_INFEASIBILITY" ->
         "Algorithm converged to a point of local infeasibility."
    [] status = "DIVERGING_ITERATES" -> "Iterate diverges."
    [] status = "RESTORATION_FAILURE" -> "Restoration phase failed."
    [] status = "ERROR_IN_STEP_COMPUTATION" ->
  "Unrecoverable error while IPOPT tried to compute the search direction."
    [] status = "INVALID_NUMBER_DETECTED" ->
         "IPOPT received an invalid number."
    [] status = "INTERNAL_ERROR" -> "Unknown internal error."
    [] status = "TOO_FEW_DEGREES_OF_FREEDOM" -> "Two few degrees of freedom."
    [] status = "INVALID_OPTION" -> "Invalid option."
    [] status = "OUT_OF_MEMORY" -> "Out of memory."

\* C3: with a failure code the stored Result is a SolverError with the
\* fixed message of that code and nothing else: no primal point, no
\* multipliers, no value.
C3_FailureStoresError ==
  (Finalized /\ last.args.status \in FailureCodes) =>
    /\ result.kind = "SolverError"
    /\ result.msg = FixedMessage(last.args.status)
    /\ DOMAIN result = {"kind", "msg"}

C3_Witness ==
  /\ Finalized
  /\ last.args.status = "MAXITER_EXCEEDED"
  /\ result = [kind |-> "SolverError", msg |-> "Max iteration exceeded."]
  /\ pc = "returned"

\* C4: once get_starting_point was asked for x (init_x) of a Problem with no
\* starting point, it has returned false, solve has returned, no value
\* query was made, and the slot holds the setup error.
C4_MissingStartAborts ==
  startMissing =>
    /\ last.name = "get_starting_point"
    /\ last.ret = FALSE
    /\ pc = "returned"
    /\ ~valueQueried
    /\ result = SolverError("Ipopt method needs a starting point.")

C4_Witness ==
  /\ startMissing
  /\ pc = "returned"
  /\ last.args.init_x
  /\ ~problem.hasStart

\* The statuses of Initialize after which solve goes on to optimize.
ProceedStatuses ==
  {"Solve_Succeeded", "Solved_To_Acceptable_Level", "Feasible_Point_Found"}

\* The statuses of Initialize that solve asserts unreachable.
AssertedStatuses == {"User_Requested_Stop", "NonIpopt_Exception_Thrown"}

Initialized == initStatus # "none"

\* C5 as stated: after every failure status of Initialize the slot holds an
\* Error, OptimizeTNLP was not called and no callback ran; after the proceed
\* and caveat statuses OptimizeTNLP was called once.
C5_EveryFailureRecordsError ==
  Initialized =>
    IF initStatus \in ProceedStatuses
      THEN optimizeCalls = 1
      ELSE /\ optimizeCalls = 0
           /\ last = NoCall
           /\ result.kind = "SolverError"

\* C5 amended: the same, except for User_Requested_Stop and
\* NonIpopt_Exception_Thrown, which solve asserts unreachable: there
\* nothing is recorded (the slot keeps NoSolution), and OptimizeTNLP is not
\* called either.
C5_FailureRecordsErrorUnlessAsserted ==
  Initialized =>
    IF initStatus \in ProceedStatuses
      THEN optimizeCalls = 1
      ELSE /\ optimizeCalls = 0
           /\ last = NoCall
           /\ pc \in {"returned", "aborted"}
           /\ IF initStatus \in AssertedStatuses
                THEN result = NoSolution /\ resultWrites = 0
                ELSE result.kind = "SolverError" /\ resultWrites = 1
                     /\ pc = "returned"

C5_Witness ==
  /\ initStatus = "Invalid_Option"
  /\ pc = "returned"
  /\ result = SolverError("Ipopt: invalid option.")
  /\ optimizeCalls = 0

Outcomes == {"Result", "ResultWithWarnings", "SolverError"}

\* C6 as stated: the slot is never written twice, and when solve has
\* returned it was written once and holds an outcome.
C6_WrittenExactlyOnce ==
  /\ resultWrites <= 1
  /\ pc = "returned" => (resultWrites = 1 /\ result.kind \in Outcomes)

\* The solve reached one of the assert (0): the status of Initialize was
\* User_Requested_Stop or NonIpopt_Exception_Thrown, or the engine ended
\* the optimize step with USER_REQUESTED_STOP.
ReachedAssert ==
  \/ initStatus \in AssertedStatuses
  \/ (Finalized /\ last.args.status = "USER_REQUESTED_STOP")

\* C6 amended: the slot is never written twice; when solve has returned
\* without reaching one of the assert (0) it was written once and holds an
\* outcome; when it reached one, the slot was not written.
C6_WrittenOnceUnlessAsserted ==
  /\ resultWrites <= 1
  /\ pc = "returned" =>
       IF ReachedAssert
         THEN resultWrites = 0 /\ result = NoSolution
         ELSE resultWrites = 1 /\ result.kind \in Outcomes

C6_Witness ==
  /\ pc = "returned"
  /\ Finalized
  /\ last.args.status = "SUCCESS"
  /\ resultWrites = 1
  /\ optimizeCalls = 1

\* Entry (i, j) of sum over c < k of lambda[c] * Hessian (g_c) (x).
RECURSIVE ConstraintTerms(_, _, _, _, _)
ConstraintTerms(k, x, lambda, i, j) ==
  IF k = 0 THEN 0
  ELSE ConstraintTerms(k - 1, x, lambda, i, j)
       + lambda[k - 1] * constraint_hessian(k - 1, x)[i][j]

\* Entry (i, j) of the Hessian of the Lagrangian.
LagrangianHessian(x, a, lambda, i, j) ==
  a * function_hessian(x)[i][j] + ConstraintTerms(problem.m, x, lambda, i, j)

\* Positions k of a dense rows x cols matrix hold (k div cols, k mod cols).
RowMajor(st, rows, cols) ==
  /\ DOMAIN st.iRow = Range(rows * cols)
  /\ DOMAIN st.jCol = Range(rows * cols)
  /\ \A k \in Range(rows * cols) :
       st.iRow[k] = k \div cols /\ st.jCol[k] = k % cols

\* C7: the structure calls of eval_jac_g and eval_h write (iRow[k], jCol[k])
\* = (k div n, k mod n), and a later value call writes at every position k
\* the entry (iRow[k], jCol[k]) of the constraint Jacobian (row i the
\* gradient of constraint i at x), respectively of the Lagrangian Hessian.
C7_StructureAndValuesAlign ==
  /\ "eval_jac_g_structure" \in called =>
       RowMajor(jacStruct, problem.m, problem.n)
  /\ "eval_h_structure" \in called =>
       RowMajor(hStruct, problem.n, problem.n)
  /\ last.name = "eval_jac_g" =>
       /\ DOMAIN last.out.values = DOMAIN jacStruct.iRow
       /\ \A k \in DOMAIN last.out.values :
            last.out.values[k] =
              constraint_gradient(jacStruct.iRow[k], last.args.x)
                [jacStruct.jCol[k]]
  /\ last.name = "eval_h" =>
       /\ DOMAIN last.out.values = DOMAIN hStruct.iRow
       /\ \A k \in DOMAIN last.out.values :
            last.out.values[k] =
              LagrangianHessian(last.args.x, last.args.obj_factor,
                                last.args.lambda,
                                hStruct.iRow[k], hStruct.jCol[k])

C7_Witness ==
  /\ last.name = "eval_jac_g"
  /\ problem.n = 2
  /\ problem.m = 2
  /\ last.args.x[0] # last.args.x[1]
  /\ jacStruct.iRow[1] = 0
  /\ jacStruct.jCol[1] = 1

\* The order of accumulation: the objective term, then the constraints in
\* declared order.
DeclaredOrder ==
  <<[term |-> "objective", index |-> 0]>>
    \o [c \in 1 .. problem.m |-> [term |-> "constraint", index |-> c - 1]]

\* C8: the matrix of compute_hessian, which the value call of eval_h writes
\* row-major, is a * H_f (x) + sum of lambda[i] * H_g_i (x), every
\* constraint with the multiplier of its own index, accumulated objective
\* first and then the constraints in declared order; a * H_f (x) when m = 0.
C8_HessianAggregation ==
  last.name = "eval_h" =>
    /\ \A i, j \in Range(problem.n) :
         /\ last.h[i][j] =
              LagrangianHessian(last.args.x, last.args.obj_factor,
                                last.args.lambda, i, j)
         /\ last.out.values[i * problem.n + j] = last.h[i][j]
         /\ problem.m = 0 =>
              last.h[i][j] =
                last.args.obj_factor * function_hessian(last.args.x)[i][j]
    /\ last.order = DeclaredOrder

C8_Witness ==
  /\ last.name = "eval_h"
  /\ problem.n = 2
  /\ problem.m = 2
  /\ last.args.lambda[0] # last.args.lambda[1]
  /\ last.args.obj_factor = 2

\* The callbacks that fill their buffers whole.
FillingCallbacks ==
  {"get_bounds_info", "get_scaling_parameters", "eval_jac_g_structure",
   "eval_h_structure", "eval_jac_g", "eval_h", "eval_grad_f", "eval_g"}

\* The length n, m, n*m or n*n of each buffer of a callback.
ImpliedLength(name, buf) ==
  CASE name = "eval_jac_g_structure" \/ name = "eval_jac_g" ->
         problem.n * problem.m
    [] name = "eval_h_structure" \/ name = "eval_h" -> problem.n * problem.n
    [] buf \in {"g_l", "g_u", "g_scaling", "g"} -> problem.m
    [] OTHER -> problem.n

\* C9: get_nlp_info reports nnz_jac_g = n*m and nnz_h_lag = n*n; every
\* buffer the engine hands over has the length implied by n, m or the
\* reported count, no callback writes a cell at or beyond that length, and
\* the filling callbacks write every cell.
C9_DenseCountsAndNoOverrun ==
  /\ info.ret =>
       /\ info.n = problem.n
       /\ info.m = problem.m
       /\ info.nnz_jac_g = problem.n * problem.m
       /\ info.nnz_h_lag = problem.n * problem.n
  /\ "len" \in DOMAIN last =>
       \A buf \in DOMAIN last.len :
         /\ last.len[buf] = ImpliedLength(last.name, buf)
         /\ DOMAIN last.out[buf] \subseteq Range(last.len[buf])
         /\ last.name \in FillingCallbacks =>
              DOMAIN last.out[buf] = Range(last.len[buf])

C9_Witness ==
  /\ last.name = "eval_h_structure"
  /\ problem.n = 2
  /\ problem.m = 1
  /\ DOMAIN last.out.iRow = 0 .. 3

\* C10: get_starting_point writes x only when init_x is true and z_L, z_U
\* (every entry 1.0) only when init_z is true; with init_x false it leaves x
\* and the result slot alone and returns true, with or without a starting
\* point in the Problem.
C10_WritesOnlyRequested ==
  last.name = "get_starting_point" =>
    /\ DOMAIN last.out.x # {} => last.args.init_x
    /\ IF last.args.init_z
         THEN /\ last.out.z_L = [i \in Range(problem.n) |-> 1]
              /\ last.out.z_U = [i \in Range(problem.n) |-> 1]
         ELSE last.out.z_L = << >> /\ last.out.z_U = << >>
    /\ ~last.args.init_x =>
         /\ last.out.x = << >>
         /\ last.slotWrites = 0
         /\ last.ret = TRUE

====
